---- MODULE Spec2Model ----
(***************************************************************************)
(* amundi.py: root_name (normalised grouping key of a fund name) and       *)
(* build_links (three internal links per fund, then orphan repair).        *)
(*                                                                         *)
(* A fund name is a sequence of one-character strings; the empty sequence  *)
(* is the blank link "".  Rows are numbered 1..n here and 0..n-1 in the    *)
(* source; every modulus below is shifted accordingly.                     *)
(***************************************************************************)
EXTENDS Integers, Sequences, FiniteSets, TLC

NB_LINKS == 3

MinOf(S) == CHOOSE x \in S : \A y \in S : x <= y

Least(a, b) == IF a <= b THEN a ELSE b

(***************************************************************************)
(* root_name                                                               *)
(***************************************************************************)
REMOVE_TERMS ==
    { <<"u", "c", "i", "t", "s">>,
      <<"e", "t", "f">>,
      <<"i", "n", "d", "e", "x">>,
      <<"d", "r">>,
      <<"a", "c", "c">>,
      <<"d", "i", "s", "t">>,
      <<"c", "a", "p">>,
      <<"h", "e", "d", "g", "e", "d">>,
      <<"u", "s", "d">>,
      <<"e", "u", "r">>,
      <<"g", "b", "p">>,
      <<"m", "x", "n">>,
      <<"s", "g", "d">>,
      <<"c", "l", "a", "s", "s">>,
      <<"f", "u", "n", "d">>,
      <<"i", "e">>,
      <<"a", "3", "e">>,
      <<"a", "3", "u">>,
      <<"a", "e">>,
      <<"i", "h", "e">>,
      <<"i", "h", "c">>,
      <<"i", "h", "u">>,
      <<"i", "u">>,
      <<"m", "e">>,
      <<"m", "u">>,
      <<"a", "h", "e">>,
      <<"m", "h", "e">>,
      <<"e", "x", "f">> }

Letters ==
    <<"a", "b", "c", "d", "e", "f", "g", "h", "i", "j", "k", "l", "m",
      "n", "o", "p", "q", "r", "s", "t", "u", "v", "w", "x", "y", "z">>

Capitals ==
    <<"A", "B", "C", "D", "E", "F", "G", "H", "I", "J", "K", "L", "M",
      "N", "O", "P", "Q", "R", "S", "T", "U", "V", "W", "X", "Y", "Z">>

\* the characters \s matches, among those the names here are written with
Whitespace == {" ", "\t"}

\* str.lower() on one character
lower_char(c) ==
    IF \E i \in 1..Len(Capitals) : Capitals[i] = c
    THEN Letters[CHOOSE i \in 1..Len(Capitals) : Capitals[i] = c]
    ELSE c

\* lower() that leaves the letters as they are
lower_kept(s) == s

\* str.lower()
lower(s) == [i \in 1..Len(s) |-> lower_char(s[i])]

\* re.split(r"[-(]", name, 1)[0]: the text before the first hyphen or "("
split_first(name) ==
    LET seps == {i \in 1..Len(name) : name[i] \in {"-", "("}}
    IN  IF seps = {} THEN name ELSE SubSeq(name, 1, MinOf(seps) - 1)

\* RE_PAREN.sub("", base): every leftmost, shortest "(...)" is removed
RECURSIVE RE_PAREN_sub(_)
RE_PAREN_sub(s) ==
    LET opens == {i \in 1..Len(s) :
                    s[i] = "(" /\ \E j \in (i+1)..Len(s) : s[j] = ")"}
    IN  IF opens = {} THEN s
        ELSE LET i == MinOf(opens)
                 j == MinOf({c \in (i+1)..Len(s) : s[c] = ")"})
             IN  SubSeq(s, 1, i - 1) \o RE_PAREN_sub(SubSeq(s, j + 1, Len(s)))

\* [t for t in RE_WHITESPACE.split(base) if t]
RECURSIVE whitespace_split(_)
whitespace_split(s) ==
    IF s = <<>> THEN <<>>
    ELSE IF s[1] \in Whitespace THEN whitespace_split(Tail(s))
    ELSE LET ends == {i \in 1..Len(s) : s[i] \in Whitespace}
             e    == IF ends = {} THEN Len(s) + 1 ELSE MinOf(ends)
         IN  <<SubSeq(s, 1, e - 1)>> \o whitespace_split(SubSeq(s, e, Len(s)))

\* [t for t in tokens if t.lower() not in REMOVE_TERMS]
KeepToken(t) == lower(t) \notin REMOVE_TERMS

drop_terms(tokens) == SelectSeq(tokens, KeepToken)

\* " ".join(tokens)
RECURSIVE join(_)
join(tokens) ==
    IF tokens = <<>> THEN <<>>
    ELSE IF Len(tokens) = 1 THEN tokens[1]
    ELSE tokens[1] \o <<" ">> \o join(Tail(tokens))

\* str.strip()
RECURSIVE strip(_)
strip(s) ==
    IF s = <<>> THEN s
    ELSE IF s[1] \in Whitespace THEN strip(Tail(s))
    ELSE IF s[Len(s)] \in Whitespace THEN strip(SubSeq(s, 1, Len(s) - 1))
    ELSE s

root_name(name) ==
    LET base    == RE_PAREN_sub(split_first(name))
        tokens  == drop_terms(whitespace_split(base))
        cleaned == join(tokens)
    IN  strip(lower(cleaned))

(***************************************************************************)
(* build_links: state                                                      *)
(***************************************************************************)
VARIABLES
    df,         \* the input table: rows [nom, type] ("Nom du fonds", "Type")
    by_root,    \* root key -> rows, in order of first appearance
    by_type,    \* Type -> rows
    links_out,  \* per row, the link entries appended so far
    inbound,    \* per row, the inbound counter
    used_cnt,   \* per row, the usage counter the same-Type pool is sorted by
    pc,         \* the loop build_links is in
    cur,        \* that loop's position
    outcome     \* "running", "returned" or the exception raised

vars == <<df, by_root, by_type, links_out, inbound, used_cnt, pc, cur, outcome>>

n == Len(df)

Rows == 1..n

Nom(j) == df[j].nom

\* A link entry is the name the source appends; row and via record which row
\* the name was read from and which pass appended it.
Link(j, via) == [nom |-> Nom(j), row |-> j, via |-> via]

\* the padding entry ""
Blank == [nom |-> <<>>, row |-> 0, via |-> "pad"]

\* set(links_out[idx])
names_in(l) == {l[s].nom : s \in 1..Len(l)}

\* "" in l
has_blank(l) == <<>> \in names_in(l)

\* l.index("")
blank_index(l) == MinOf({s \in 1..Len(l) : l[s].nom = <<>>})

(***************************************************************************)
(* lines 83-91: grouping by root name and by Type, empty link lists        *)
(***************************************************************************)
RECURSIVE group_by_root(_, _)
group_by_root(table, m) ==
    IF m = 0 THEN <<>>
    ELSE LET prev == group_by_root(table, m - 1)
             key  == root_name(table[m].nom)
             hit  == {g \in 1..Len(prev) : prev[g].root = key}
         IN  IF hit = {}
             THEN Append(prev, [root |-> key, group |-> <<m>>])
             ELSE [prev EXCEPT ![MinOf(hit)].group = Append(@, m)]

group_by_type(table) ==
    [t \in {table[j].type : j \in 1..Len(table)} |->
        {j \in 1..Len(table) : table[j].type = t}]

\* the (group, rank) pairs the cyclic pass visits: groups of one are skipped
RECURSIVE cyclic_order(_, _)
cyclic_order(groups, gi) ==
    IF gi > Len(groups) THEN <<>>
    ELSE LET g == Len(groups[gi].group)
         IN  (IF g = 1 THEN <<>> ELSE [k \in 1..g |-> <<gi, k>>])
             \o cyclic_order(groups, gi + 1)

\* where control goes when a loop reaches position c
after_repair(c) == IF c <= n THEN <<"repair", c>> ELSE <<"assign", 0>>

after_fill(c) == IF c <= n THEN <<"fill", c>> ELSE after_repair(1)

after_cyclic(groups, c) ==
    IF c <= Len(cyclic_order(groups, 1)) THEN <<"cyclic", c>> ELSE after_fill(1)

\* for j in picks: if len(links_out[idx]) == NB_LINKS: break; append ...
taken(l, picks) == SubSeq(picks, 1, Least(Len(picks), NB_LINKS - Len(l)))

count_in(seq, j) == Cardinality({p \in 1..Len(seq) : seq[p] = j})

\* counter[j] += 1 for every appended j
bump(counter, picks) == [j \in 1..Len(counter) |-> counter[j] + count_in(picks, j)]

links_of(picks, via) == [p \in 1..Len(picks) |-> Link(picks[p], via)]

GroupRows ==
    /\ pc = "start"
    /\ by_root' = group_by_root(df, n)
    /\ by_type' = group_by_type(df)
    /\ links_out' = [j \in Rows |-> <<>>]
    /\ inbound' = [j \in Rows |-> 0]
    /\ used_cnt' = [j \in Rows |-> 0]
    /\ pc' = after_cyclic(by_root', 1)[1]
    /\ cur' = after_cyclic(by_root', 1)[2]
    /\ UNCHANGED <<df, outcome>>

(***************************************************************************)
(* lines 94-105: cyclic links inside each root group                       *)
(***************************************************************************)
\* picks = [group[(k+s) % g] for s in range(1, min(NB_LINKS, g))]
cyclic_picks(group, k) ==
    LET g == Len(group)
    IN  [s \in 1..(Least(NB_LINKS, g) - 1) |-> group[((k - 1 + s) % g) + 1]]

CyclicStep ==
    /\ pc = "cyclic"
    /\ LET pos   == cyclic_order(by_root, 1)[cur]
           group == by_root[pos[1]].group
           idx   == group[pos[2]]
           picks == taken(links_out[idx], cyclic_picks(group, pos[2]))
       IN  /\ links_out' = [links_out EXCEPT ![idx] = @ \o links_of(picks, "root")]
           /\ inbound' = bump(inbound, picks)
           /\ used_cnt' = bump(used_cnt, picks)
    /\ pc' = after_cyclic(by_root, cur + 1)[1]
    /\ cur' = after_cyclic(by_root, cur + 1)[2]
    /\ UNCHANGED <<df, by_root, by_type, outcome>>

(***************************************************************************)
(* lines 108-138: same-Type fill, random fill, padding                     *)
(***************************************************************************)
\* the same-Type pool restricted to the rows after idx
same_type_pool_after(idx, existing) ==
    {j \in by_type[df[idx].type] : j > idx /\ Nom(j) \notin existing}

\* pool = [j for j in by_type.get(ttype, []) if j != idx and nom[j] not in existing]
same_type_pool(idx, existing) ==
    {j \in by_type[df[idx].type] : j # idx /\ Nom(j) \notin existing}

\* remaining = [j for j in all_idx if j != idx and nom[j] not in existing]
remaining_pool(idx, existing) ==
    {j \in Rows : j # idx /\ Nom(j) \notin existing}

\* how many of a pool the loop appends before the list is full
room(l, pool) == Least(Cardinality(pool), NB_LINKS - Len(l))

\* the orders in which r distinct members of a pool can come first
arrangements(pool, r) ==
    {p \in [1..r -> pool] : \A a, b \in 1..r : a # b => p[a] # p[b]}

\* random.shuffle(pool); pool.sort(key=used_cnt): the r first of any order
\* of the pool that is ascending in used_cnt
shuffled_sorted(pool, r) ==
    {p \in arrangements(pool, r) :
        /\ \A a \in 1..(r - 1) : used_cnt[p[a]] <= used_cnt[p[a + 1]]
        /\ \A j \in pool \ {p[a] : a \in 1..r} :
              \A a \in 1..r : used_cnt[p[a]] <= used_cnt[j]}

\* random.shuffle(remaining): the r first of any order
shuffled(pool, r) == arrangements(pool, r)

\* links_out[idx] += [""] * (NB_LINKS - len(links_out[idx]))
padded(l) == l \o [s \in 1..(NB_LINKS - Len(l)) |-> Blank]

FillRow ==
    /\ pc = "fill"
    /\ LET idx == cur
           l0  == links_out[idx]
       IN  IF Len(l0) = NB_LINKS
           THEN UNCHANGED <<links_out, inbound, used_cnt>>
           ELSE LET pool == same_type_pool(idx, names_in(l0))
                IN  \E tp \in shuffled_sorted(pool, room(l0, pool)) :
                      LET l1        == l0 \o links_of(tp, "type")
                          remaining == IF Len(l1) < NB_LINKS
                                       THEN remaining_pool(idx, names_in(l1))
                                       ELSE {}
                      IN  \E rp \in shuffled(remaining, room(l1, remaining)) :
                            /\ links_out' = [links_out EXCEPT ![idx] =
                                   padded(l1 \o links_of(rp, "random"))]
                            /\ inbound' = bump(bump(inbound, tp), rp)
                            /\ used_cnt' = bump(bump(used_cnt, tp), rp)
    /\ pc' = after_fill(cur + 1)[1]
    /\ cur' = after_fill(cur + 1)[2]
    /\ UNCHANGED <<df, by_root, by_type, outcome>>

(***************************************************************************)
(* lines 141-149: orphan repair                                            *)
(***************************************************************************)
\* next((i for i,l in enumerate(links_out) if "" in l and i != o), None),
\* and (o+1) % len(df) when there is none
repair_donor(o) ==
    LET free == {i \in Rows : has_blank(links_out[i]) /\ i # o}
    IN  IF free # {} THEN MinOf(free) ELSE (o % n) + 1

\* a repair that overwrites the first slot of a full list
repair_slot_first(l) == IF has_blank(l) THEN blank_index(l) ELSE 1

\* links_out[donor].index("") if "" in links_out[donor] else NB_LINKS-1
repair_slot(l) == IF has_blank(l) THEN blank_index(l) ELSE NB_LINKS

RepairStep ==
    /\ pc = "repair"
    /\ LET o == cur
       IN  IF inbound[o] # 0
           THEN UNCHANGED <<links_out, inbound>>
           ELSE LET donor == repair_donor(o)
                    slot  == repair_slot(links_out[donor])
                IN  /\ links_out' = [links_out EXCEPT ![donor][slot] = Link(o, "repair")]
                    /\ inbound' = [inbound EXCEPT ![o] = @ + 1]
    /\ pc' = after_repair(cur + 1)[1]
    /\ cur' = after_repair(cur + 1)[2]
    /\ UNCHANGED <<df, by_root, by_type, used_cnt, outcome>>

(***************************************************************************)
(* lines 151-152: the three columns are assigned and the table returned.   *)
(* With no row, links_out is [] and pandas refuses the assignment          *)
(* ("Columns must be same length as key").                                 *)
(***************************************************************************)
AssignColumns ==
    /\ pc = "assign"
    /\ outcome' = IF n = 0 THEN "ValueError" ELSE "returned"
    /\ pc' = "done"
    /\ UNCHANGED <<df, by_root, by_type, links_out, inbound, used_cnt, cur>>

(***************************************************************************)
(* Input tables                                                            *)
(***************************************************************************)
Row(nom, type) == [nom |-> nom, type |-> type]

\* every table of at most MaxFunds rows over three names (two of one root)
\* and two Types; Types are only compared with each other, so the first row
\* is given the first Type
MaxFunds == 4

NamePool == { <<"x">>, <<"X", "-", "u">>, <<"y">> }

Types == {"T1", "T2"}

EnumTables ==
    UNION { {t \in [1..m -> [nom : NamePool, type : Types]] : m = 0 \/ t[1].type = "T1"} :
            m \in 0..MaxFunds }

\* four funds of one root name, all names distinct
FourOfARoot ==
    << Row(<<"x">>, "T1"), Row(<<"X", "-", "u">>, "T1"),
       Row(<<"x", " ", "(", "c", ")">>, "T1"), Row(<<"x", " ", "i", "e">>, "T1") >>

\* four funds, two of them with the same name and different Types
TwoNamesakes ==
    << Row(<<"x">>, "T1"), Row(<<"X", "-", "u">>, "T1"),
       Row(<<"y">>, "T1"), Row(<<"y">>, "T2") >>

\* five funds of five roots and one Type
FiveOfAType ==
    << Row(<<"p">>, "T1"), Row(<<"q">>, "T1"), Row(<<"r">>, "T1"),
       Row(<<"s">>, "T1"), Row(<<"t">>, "T1") >>

\* six funds, all names distinct: a root group of three, and two funds
\* that are alone in their Type
SixFunds ==
    << Row(<<"z">>, "T1"), Row(<<"z", "-", "b">>, "T2"),
       Row(<<"z", "(", "c", ")">>, "T2"), Row(<<"d">>, "T1"),
       Row(<<"k">>, "T2"), Row(<<"f">>, "T3") >>

\* five funds, all names distinct: a root group of two, three more funds of
\* their Type, and one fund that is alone in its Type
FiveFunds ==
    << Row(<<"z">>, "T1"), Row(<<"z", "-", "b">>, "T1"), Row(<<"c">>, "T1"),
       Row(<<"d">>, "T1"), Row(<<"f">>, "T2") >>

ScenarioTables == {FourOfARoot, TwoNamesakes, FiveOfAType, FiveFunds, SixFunds}

\* Pairs of names that differ only in letter case, in boilerplate tokens, in
\* whitespace and in the text after the first hyphen or parenthesis: a plain
\* rendering of some core tokens, and a decorated rendering of the same.
upper_char(c) ==
    IF \E i \in 1..Len(Letters) : Letters[i] = c
    THEN Capitals[CHOOSE i \in 1..Len(Letters) : Letters[i] = c]
    ELSE c

Cased(t, case) ==
    [i \in 1..Len(t) |->
        IF case = "upper" \/ (case = "title" /\ i = 1) THEN upper_char(t[i]) ELSE t[i]]

RECURSIVE JoinWith(_, _)
JoinWith(tokens, gap) ==
    IF tokens = <<>> THEN <<>>
    ELSE IF Len(tokens) = 1 THEN tokens[1]
    ELSE tokens[1] \o gap \o JoinWith(Tail(tokens), gap)

Cores == { << <<"m", "s", "c", "i">> >>, << <<"m", "s", "c", "i">>, <<"w">> >> }

Tails ==
    { <<>>, <<"-", "u">>, <<" ", "(", "c", ")">>,
      <<" ", "-", " ", "A", "U", " ", "(", "C", ")">> }

Decorations ==
    [ case : {"lower", "upper", "title"},
      term : {<<>>, <<"e", "t", "f">>, <<"i", "e">>},
      at   : {0, 1, 2},
      gap  : {<<" ">>, <<" ", " ">>, <<"\t">>},
      lead : {<<>>, <<" ">>},
      tail : Tails ]

Plain ==
    [case |-> "lower", term |-> <<>>, at |-> 0, gap |-> <<" ">>, lead |-> <<>>,
     tail |-> <<>>]

Render(core, d) ==
    LET at     == Least(d.at, Len(core))
        tokens == IF d.term = <<>> THEN core
                  ELSE SubSeq(core, 1, at) \o <<d.term>> \o SubSeq(core, at + 1, Len(core))
        cased  == [i \in 1..Len(tokens) |-> Cased(tokens[i], d.case)]
    IN  d.lead \o JoinWith(cased, d.gap) \o d.tail

PairTable(core, d) == << Row(Render(core, Plain), "T1"), Row(Render(core, d), "T1") >>

ExampleAU ==
    <<"A", "M", "U", "N", "D", "I", " ", "I", "N", "D", "E", "X", " ", "F", "T", "S", "E", " ",
      "E", "P", "R", "A", " ", "N", "A", "R", "E", "I", "T", " ", "G", "L", "O", "B", "A", "L",
      " ", "-", " ", "A", "U", " ", "(", "C", ")">>

ExampleDR ==
    <<"A", "M", "U", "N", "D", "I", " ", "I", "N", "D", "E", "X", " ", "F", "T", "S", "E", " ",
      "E", "P", "R", "A", " ", "N", "A", "R", "E", "I", "T", " ", "G", "L", "O", "B", "A", "L",
      " ", "(", "D", "R", ")", " ", "E", "T", "F", " ", "A", "c", "c">>

ExampleTable == << Row(ExampleAU, "T1"), Row(ExampleDR, "T1") >>

PairTables == {PairTable(c, d) : c \in Cores, d \in Decorations} \cup {ExampleTable}

Tables == EnumTables \cup ScenarioTables \cup PairTables

(***************************************************************************)
(* Specification                                                           *)
(***************************************************************************)
Init ==
    /\ df \in Tables
    /\ by_root = <<>>
    /\ by_type = <<>>
    /\ links_out = <<>>
    /\ inbound = <<>>
    /\ used_cnt = <<>>
    /\ pc = "start"
    /\ cur = 0
    /\ outcome = "running"

Next ==
    \/ GroupRows
    \/ CyclicStep
    \/ FillRow
    \/ RepairStep
    \/ AssignColumns

Spec == Init /\ [][Next]_vars

(***************************************************************************)
(* Properties                                                              *)
(***************************************************************************)
Started == pc # "start"

Returned == pc = "done" /\ outcome = "returned"

Slots == 1..NB_LINKS

\* the groups of by_root with more than one member
BigGroups == {gi \in 1..Len(by_root) : Len(by_root[gi].group) > 1}

Members(gi) == {by_root[gi].group[k] : k \in 1..Len(by_root[gi].group)}

\* the number of link slots of other rows that hold row j
HeldBy(j) ==
    Cardinality({<<i, s>> \in (Rows \ {j}) \X Slots :
                    s <= Len(links_out[i]) /\ links_out[i][s].row = j})

\* C1: in a table of at least two rows, when build_links returns, every fund
\* is named in a link slot of some other fund.
C1_EveryFundLinked ==
    (Returned /\ n >= 2) =>
        \A j \in Rows : \E i \in Rows \ {j} : Nom(j) \in names_in(links_out[i])

\* C2: in a table of at least two rows, at no step does a link slot of a fund
\* hold that fund's own name.
C2_NoSelfLink ==
    (Started /\ n >= 2) => \A i \in Rows : Nom(i) \notin names_in(links_out[i])

\* C3: for a table of exactly one fund build_links returns that fund with
\* its three links blank.
C3_SingleFundBlank ==
    (pc = "done" /\ n = 1) =>
        /\ outcome = "returned"
        /\ links_out[1] = <<Blank, Blank, Blank>>

\* C4: the returned table gives every fund exactly NB_LINKS entries, and
\* none of them is blank when the table has four rows or more.
C4_BlankOnlyBelowFour ==
    Returned =>
        \A i \in Rows :
            /\ Len(links_out[i]) = NB_LINKS
            /\ n >= 4 => ~has_blank(links_out[i])

\* C5: when the cyclic pass is over, the member at rank k of a root group of
\* g > 1 holds the names of the next min(NB_LINKS, g-1) members in rotation,
\* in that order.
C5_CyclicNextMembers ==
    (pc = "fill" /\ cur = 1) =>
        \A gi \in BigGroups :
            LET group == by_root[gi].group
                g     == Len(group)
            IN  \A k \in 1..g :
                    [s \in 1..Len(links_out[group[k]]) |-> links_out[group[k]][s].nom]
                      = [s \in 1..Least(NB_LINKS, g - 1) |->
                            Nom(group[((k - 1 + s) % g) + 1])]

\* C6: in the returned table every member of a root group of two or more
\* holds a link to another member of its group and is the target of a link
\* held by another member of its group.
C6_GroupLinksSurvive ==
    Returned =>
        \A gi \in BigGroups : \A idx \in Members(gi) :
            /\ \E m \in Members(gi) \ {idx} : \E s \in Slots :
                  links_out[idx][s].row = m
            /\ \E m \in Members(gi) \ {idx} : \E s \in Slots :
                  links_out[m][s].row = idx

\* C6 witness: the table is returned after the repair pass overwrote the
\* last, filled slot of a member of a root group.
C6_Witness ==
    /\ Returned
    /\ df = FiveFunds
    /\ links_out[1][NB_LINKS].via = "repair"

\* C7: in the returned table no two non-blank entries of one fund are the
\* same name.
C7_DistinctEntries ==
    Returned =>
        \A i \in Rows : \A s, t \in Slots :
            (s # t /\ links_out[i][s].nom # <<>>) =>
                links_out[i][s].nom # links_out[i][t].nom

\* the entries of a list that the initial assignment appended
Assigned(l) == {s \in 1..Len(l) : l[s].via \in {"root", "type", "random"}}

ViaRank(via) == CASE via = "root" -> 1 [] via = "type" -> 2 [] OTHER -> NB_LINKS

OneType == \A i, j \in Rows : df[i].type = df[j].type

DistinctRoots == Len(by_root) = n

\* C8: in every fund's list the root-group links come before the same-Type
\* links and these before the random ones; a list holds a random link only
\* if every other fund of the same Type is already named by a root-group or
\* same-Type link of the list; and in a table of one Type and of distinct
\* root names no link comes from the random fallback.
C8_PriorityOrder ==
    Started =>
        \A idx \in Rows :
            LET l == links_out[idx]
            IN  /\ \A s, t \in Assigned(l) :
                      s < t => ViaRank(l[s].via) <= ViaRank(l[t].via)
                /\ (\E s \in Assigned(l) : l[s].via = "random") =>
                      \A j \in Rows \ {idx} :
                          df[j].type = df[idx].type =>
                              \E t \in Assigned(l) :
                                  /\ l[t].via \in {"root", "type"}
                                  /\ l[t].nom = Nom(j)
                /\ (OneType /\ DistinctRoots) =>
                      \A s \in Assigned(l) : l[s].via # "random"

\* C8 witness: a fund whose same-Type pool ran out holds a same-Type link
\* followed by a random one.
C8_Witness ==
    /\ Started
    /\ \E idx \in Rows : \E s, t \in 1..Len(links_out[idx]) :
          /\ s < t
          /\ links_out[idx][s].via = "type"
          /\ links_out[idx][t].via = "random"

\* C9: two names that differ only in the text after the first hyphen or
\* parenthesis, in boilerplate tokens, in letter case or in whitespace (each
\* decorated name against the plain one, and the two AMUNDI INDEX FTSE EPRA
\* NAREIT GLOBAL names) get one root key, form one root group and, once the
\* cyclic pass is over, link to each other.
C9_SameRootKey ==
    (Started /\ n = 2 /\ df \in PairTables) =>
        /\ Len(by_root) = 1
        /\ by_root[1].group = <<1, 2>>
        /\ pc # "cyclic" =>
              /\ links_out[1][1] = Link(2, "root")
              /\ links_out[2][1] = Link(1, "root")

\* C9 witness: the table of the two AMUNDI names is returned with each
\* linking to the other.
C9_Witness ==
    /\ Returned
    /\ df = ExampleTable
    /\ links_out[1][1].nom = ExampleDR
    /\ links_out[2][1].nom = ExampleAU

\* C10: in a table of at least two rows, after every step inbound[j] is the
\* number of link slots of other funds that hold fund j.
C10_InboundExact ==
    (Started /\ n >= 2) => \A j \in Rows : inbound[j] = HeldBy(j)

====
